---- MODULE Spec2Model ----
(***************************************************************************)
(* Tic-tac-toe rules and alpha-beta search of src/tictactoe.py.            *)
(*                                                                         *)
(* A board is the list of lists of the source, board[i][j] with i, j in    *)
(* 0..N-1.  Python's None is the string "None"; EMPTY is None, as in the   *)
(* source.  A move is the tuple <<i, j>>.  The functions of the source are *)
(* operators of the same name.  The state machine is a caller that holds a *)
(* board and calls the functions on it; `call` records the last call.      *)
(***************************************************************************)
EXTENDS Integers, FiniteSets, Sequences, TLC

VARIABLES board, call

vars == <<board, call>>

X == "X"
O == "O"
None == "None"
EMPTY == None

\* dimension of the board built by initial_state()
N == 3

\* how far outside 0..N-1 the coordinates handed to result() may lie
OutOfRange == 1

Idx == 0 .. (N - 1)

Marks == {EMPTY, X, O}

AllBoards == [Idx -> [Idx -> Marks]]

MoveInputs == ((0 - OutOfRange) .. (N - 1 + OutOfRange)) \X ((0 - OutOfRange) .. (N - 1 + OutOfRange))

\* float("-inf") and float("inf"): below and above every utility
NegInf == -2
PosInf == 2

\* a move that is None
NoAction == <<>>

initial_state == [i \in Idx |-> [j \in Idx |-> EMPTY]]

\* row.count(mark) summed over the rows
Count(b, mark) == Cardinality({c \in Idx \X Idx : b[c[1]][c[2]] = mark})

\* the lists the source builds for a column and the two diagonals
RowOf(b, i) == b[i]
ColumnOf(b, col) == [row \in Idx |-> b[row][col]]
LeftDiag(b) == [i \in Idx |-> b[i][i]]
RightDiag(b) == [i \in Idx |-> b[i][N - i - 1]]

\* all(cell == mark for cell in line)
AllCells(line, mark) == \A i \in Idx : line[i] = mark

\* EndsGame without `None not in line`: a line of three empty cells counts
EndsGameAnyEqual(line) == \A i \in Idx : line[i] = line[0]

\* None not in line and all(x == line[0] for x in line)
EndsGame(line) == (\A i \in Idx : line[i] # None) /\ (\A i \in Idx : line[i] = line[0])

\* terminal() without the check of the right diagonal
terminalNoRightDiag(b) ==
  IF b = initial_state THEN FALSE
  ELSE LET by_row == \E i \in Idx : EndsGame(RowOf(b, i))
           by_col == by_row \/ \E col \in Idx : EndsGame(ColumnOf(b, col))
           by_left == by_col \/ EndsGame(LeftDiag(b))
       IN  by_left \/ \A i \in Idx : \A j \in Idx : b[i][j] \in {X, O}

terminal(b) ==
  IF b = initial_state THEN FALSE
  ELSE LET by_row == \E i \in Idx : EndsGame(RowOf(b, i))
           by_col == by_row \/ \E col \in Idx : EndsGame(ColumnOf(b, col))
           by_left == by_col \/ EndsGame(LeftDiag(b))
           by_right == by_left \/ EndsGame(RightDiag(b))
       IN  by_right \/ \A i \in Idx : \A j \in Idx : b[i][j] \in {X, O}

\* player() with count_of_x < count_of_o in place of <=
playerStrict(b) ==
  IF b = initial_state THEN X
  ELSE IF terminal(b) THEN None
  ELSE LET count_of_x == Count(b, X)
           count_of_o == Count(b, O)
       IN  IF count_of_x < count_of_o THEN X ELSE O

player(b) ==
  IF b = initial_state THEN X
  ELSE IF terminal(b) THEN None
  ELSE LET count_of_x == Count(b, X)
           count_of_o == Count(b, O)
       IN  IF count_of_x <= count_of_o THEN X ELSE O

actions(b) ==
  IF terminal(b) THEN {}
  ELSE UNION {{<<row_idx, col_idx>> : col_idx \in {j \in Idx : b[row_idx][j] = EMPTY}}
              : row_idx \in Idx}

\* result() that checks the coordinates and terminal() but not that the cell is empty
resultOverwrite(b, action) ==
  IF action \notin (Idx \X Idx) \/ terminal(b) THEN [raised |-> TRUE]
  ELSE LET player_piece == player(b)
       IN  IF player_piece = None THEN [raised |-> TRUE]
           ELSE [raised |-> FALSE,
                 new_board |-> [b EXCEPT ![action[1]][action[2]] = player_piece]]

\* result() that returns the copy of the board without placing the piece
resultNoPiece(b, action) ==
  IF action \notin actions(b) THEN [raised |-> TRUE]
  ELSE LET player_piece == player(b)
       IN  IF player_piece = None THEN [raised |-> TRUE]
           ELSE [raised |-> FALSE, new_board |-> b]

\* result() either raises ValueError or returns new_board
result(b, action) ==
  IF action \notin actions(b) THEN [raised |-> TRUE]
  ELSE LET player_piece == player(b)
       IN  IF player_piece = None THEN [raised |-> TRUE]
           ELSE [raised |-> FALSE,
                 new_board |-> [b EXCEPT ![action[1]][action[2]] = player_piece]]

\* the first index in 0..N-1 whose line is all X or all O, N when there is none
RECURSIVE FirstUniform(_, _)
FirstUniform(lines, i) ==
  IF i = N THEN N
  ELSE IF AllCells(lines[i], X) \/ AllCells(lines[i], O) THEN i
  ELSE FirstUniform(lines, i + 1)

\* the rows and the columns in the order the loops take them
Rows(b) == [i \in Idx |-> RowOf(b, i)]
Columns(b) == [col \in Idx |-> ColumnOf(b, col)]

\* the mark returned for a line known to be all X or all O (X is tested first)
MarkOf(line) == IF AllCells(line, X) THEN X ELSE O

Uniform(line) == AllCells(line, X) \/ AllCells(line, O)

\* winner() without the check of the right diagonal
winnerNoRightDiag(b) ==
  LET r == FirstUniform(Rows(b), 0)
      c == FirstUniform(Columns(b), 0)
  IN  IF r < N THEN MarkOf(RowOf(b, r))
      ELSE IF c < N THEN MarkOf(ColumnOf(b, c))
      ELSE IF Uniform(LeftDiag(b)) THEN MarkOf(LeftDiag(b))
      ELSE None

winner(b) ==
  LET r == FirstUniform(Rows(b), 0)
      c == FirstUniform(Columns(b), 0)
  IN  IF r < N THEN MarkOf(RowOf(b, r))
      ELSE IF c < N THEN MarkOf(ColumnOf(b, c))
      ELSE IF Uniform(LeftDiag(b)) THEN MarkOf(LeftDiag(b))
      ELSE IF Uniform(RightDiag(b)) THEN MarkOf(RightDiag(b))
      ELSE None

\* 1 for a line of X and for a line of O
ScoreOfAny(line) == 1

\* 1 for a line of X, -1 for a line of O
ScoreOf(line) == IF AllCells(line, X) THEN 1 ELSE -1

utility(b) ==
  LET r == FirstUniform(Rows(b), 0)
      c == FirstUniform(Columns(b), 0)
  IN  IF r < N THEN ScoreOf(RowOf(b, r))
      ELSE IF c < N THEN ScoreOf(ColumnOf(b, c))
      ELSE IF Uniform(LeftDiag(b)) THEN ScoreOf(LeftDiag(b))
      ELSE IF Uniform(RightDiag(b)) THEN ScoreOf(RightDiag(b))
      ELSE 0

\* line 227 with >= in place of >: the last of the equal values is kept
MaxKeepLast(max_result, action, v, best_action) ==
  IF max_result >= v THEN <<max_result, action>> ELSE <<v, best_action>>

\* line 227: v, best_action = (max_result, action) if max_result > v else (v, best_action)
MaxKeep(max_result, action, v, best_action) ==
  IF max_result > v THEN <<max_result, action>> ELSE <<v, best_action>>

\* line 245 with <= in place of <: the last of the equal values is kept
MinKeepLast(max_result, action, v, best_action) ==
  IF max_result <= v THEN <<max_result, action>> ELSE <<v, best_action>>

\* line 245: v, best_action = (max_result, action) if max_result < v else (v, best_action)
MinKeep(max_result, action, v, best_action) ==
  IF max_result < v THEN <<max_result, action>> ELSE <<v, best_action>>

Max(a, b) == IF a >= b THEN a ELSE b
Min(a, b) == IF a <= b THEN a ELSE b

\* the alpha and beta a call can carry: the two infinities and the utilities
Bounds == {NegInf, -1, 0, 1, PosInf}
Windows == UNION {{<<alpha, beta>> : beta \in {x \in Bounds : alpha < x}} : alpha \in Bounds}

\* a break one step early: if beta <= alpha + 1
PruneEarly(alpha, beta) == beta <= alpha + 1

\* if beta <= alpha: break
Prune(alpha, beta) == beta <= alpha

(***************************************************************************)
(* maximizing_action and minimizing_action call each other on              *)
(* result(board, action) and use only the value such a call returns        *)
(* (`max_result, _ = ...`); minimax() uses only the action.  What the      *)
(* calls of one function on result(board, action) can return is handed to  *)
(* the operator of the other as `calls`: calls[action][<<alpha, beta>>] is *)
(* the set of values the call with that alpha and beta can return.         *)
(*                                                                         *)
(* The loop `for action in actions(board)` is taken for every order in     *)
(* which the set can be iterated.  A loop state holds the actions not yet  *)
(* iterated (todo) and the locals v, best_action and alpha (beta in        *)
(* minimizing_action).  Each round takes every loop state one iteration    *)
(* further, with every action still to do and every value the call on the  *)
(* resulting board can return; a loop state leaves the loop when todo is   *)
(* empty or at the break.  The result is the set of pairs                  *)
(* <<v, best_action>> the function can return.  `top` says that the call   *)
(* can be the one of minimax(); in the other calls, whose best_action the  *)
(* caller drops, the local stays None.                                     *)
(***************************************************************************)
Values(returns) == {r[1] : r \in returns}

RECURSIVE MaxLoop(_, _, _, _, _)
MaxLoop(beta, calls, top, running, returned) ==
  IF running = {} THEN returned
  ELSE LET exhausted == {s \in running : s.todo = {}}
           Body(s, action) ==
             {LET kept == MaxKeep(max_result, IF top THEN action ELSE NoAction, s.v, s.best_action)
              IN  [todo |-> s.todo \ {action}, v |-> kept[1], best_action |-> kept[2],
                   alpha |-> Max(s.alpha, kept[1])]
              : max_result \in calls[action][<<s.alpha, beta>>]}
           after == UNION {UNION {Body(s, action) : action \in s.todo} : s \in running \ exhausted}
           broken == {s \in after : Prune(s.alpha, beta)}
       IN  MaxLoop(beta, calls, top, after \ broken,
                   returned \cup {<<s.v, s.best_action>> : s \in exhausted \cup broken})

maximizing_action(b, alpha, beta, calls, top) ==
  IF terminal(b) THEN {<<utility(b), NoAction>>}
  ELSE MaxLoop(beta, calls, top,
               {[todo |-> DOMAIN calls, v |-> NegInf, best_action |-> NoAction, alpha |-> alpha]}, {})

RECURSIVE MinLoop(_, _, _, _, _)
MinLoop(alpha, calls, top, running, returned) ==
  IF running = {} THEN returned
  ELSE LET exhausted == {s \in running : s.todo = {}}
           Body(s, action) ==
             {LET kept == MinKeep(max_result, IF top THEN action ELSE NoAction, s.v, s.best_action)
              IN  [todo |-> s.todo \ {action}, v |-> kept[1], best_action |-> kept[2],
                   beta |-> Min(s.beta, kept[1])]
              : max_result \in calls[action][<<alpha, s.beta>>]}
           after == UNION {UNION {Body(s, action) : action \in s.todo} : s \in running \ exhausted}
           broken == {s \in after : Prune(alpha, s.beta)}
       IN  MinLoop(alpha, calls, top, after \ broken,
                   returned \cup {<<s.v, s.best_action>> : s \in exhausted \cup broken})

minimizing_action(b, alpha, beta, calls, top) ==
  IF terminal(b) THEN {<<utility(b), NoAction>>}
  ELSE MinLoop(alpha, calls, top,
               {[todo |-> DOMAIN calls, v |-> PosInf, best_action |-> NoAction, beta |-> beta]}, {})

(***************************************************************************)
(* The recursion of the two functions, by the number of marks on the       *)
(* board.  Boards holds the boards result() builds from initial_state() in *)
(* 0 .. N * N moves.  On a board with an even number of marks the          *)
(* recursion calls maximizing_action, on one with an odd number            *)
(* minimizing_action (minimax() calls by player(), the two functions call  *)
(* each other on result(board, action)).  SearchedAll gives, for every     *)
(* such board and every alpha < beta, the pairs <<v, best_action>> the     *)
(* function called on the board can return; CallsOf gives, for every       *)
(* board, the calls of its loop.                                           *)
(***************************************************************************)
Successors(bs) == UNION {{result(b, action).new_board : action \in actions(b)} : b \in bs}

RECURSIVE BoardsUpTo(_)
BoardsUpTo(k) ==
  IF k = 0 THEN <<{initial_state}>>
  ELSE LET fewer == BoardsUpTo(k - 1)
       IN  Append(fewer, Successors(fewer[k]))

\* Boards[k + 1]: the boards with k marks
Boards == BoardsUpTo(N * N)
BoardsWith(k) == Boards[k + 1]

CallsOf(bs, sub) ==
  [b \in bs |->
     [action \in actions(b) |->
        LET returns == sub[result(b, action).new_board]
        IN  [w \in Windows |-> Values(returns[w])]]]

\* minimax() calls with alpha = float("-inf") and beta = float("inf")
Top(w) == w = <<NegInf, PosInf>>

ByMax(bs, calls) ==
  [b \in bs |-> [w \in Windows |-> maximizing_action(b, w[1], w[2], calls[b], Top(w))]]

ByMin(bs, calls) ==
  [b \in bs |-> [w \in Windows |-> minimizing_action(b, w[1], w[2], calls[b], Top(w))]]

\* The first element is for the boards with k marks, the next for k + 1 marks, ...
\* The tables of the deeper levels and of the calls are taken as a whole (Len,
\* DOMAIN) before any entry of them is looked up, so that each is built once.
RECURSIVE SearchedFrom(_)
SearchedFrom(k) ==
  IF k = N * N THEN <<ByMin(BoardsWith(k), [b \in BoardsWith(k) |-> <<>>])>>
  ELSE LET deeper == SearchedFrom(k + 1)
           calls == CallsOf(BoardsWith(k), deeper[1])
       IN  IF Len(deeper) = N * N - k /\ DOMAIN calls = BoardsWith(k)
           THEN <<IF k % 2 = 0 THEN ByMax(BoardsWith(k), calls)
                  ELSE ByMin(BoardsWith(k), calls)>> \o deeper
           ELSE <<>>

SearchedAll == SearchedFrom(0)

\* the number of marks on a board
MarkCount(b) == Count(b, X) + Count(b, O)

\* what the function the recursion calls on b can return, called with alpha and beta
Searched(b, alpha, beta) == SearchedAll[MarkCount(b) + 1][b][<<alpha, beta>>]

\* the moves minimax(b) can return, on a board result() builds from initial_state():
\* there X moves on an even number of marks and O on an odd number
minimax(b) ==
  IF terminal(b) THEN {NoAction}
  ELSE IF b = initial_state THEN actions(b)
  ELSE LET current_player == player(b)
       IN  IF current_player = X \/ current_player = O
           THEN {r[2] : r \in Searched(b, NegInf, PosInf)}
           ELSE {NoAction}

NoCall == [op |-> "none"]

\* the caller applies a move with result(); it keeps its board when result() raises
Result(m) ==
  LET r == result(board, m)
  IN  /\ call' = [op |-> "result", board |-> board, action |-> m, ret |-> r]
      /\ board' = IF r.raised THEN board ELSE r.new_board

Winner == call' = [op |-> "winner", board |-> board, ret |-> winner(board)] /\ UNCHANGED board

Terminal == call' = [op |-> "terminal", board |-> board, ret |-> terminal(board)] /\ UNCHANGED board

Utility == call' = [op |-> "utility", board |-> board, ret |-> utility(board)] /\ UNCHANGED board

\* the caller asks minimax() for a move
Minimax == \E action \in minimax(board) :
  call' = [op |-> "minimax", board |-> board, ret |-> action] /\ UNCHANGED board

\* the caller calls the function of the player to move (either one on a terminal
\* board) with alpha = float("-inf") and beta = float("inf")
Search == \E r \in Searched(board, NegInf, PosInf) :
  call' = [op |-> "search", board |-> board, ret |-> r] /\ UNCHANGED board

\* the caller applies the move minimax() returns
Play == \E action \in minimax(board) : action # NoAction /\ Result(action)

Init == board = initial_state /\ call = NoCall

Next == Minimax \/ Search \/ \E m \in Idx \X Idx : Result(m)

Spec == Init /\ [][Next]_vars

\* both players play the moves of minimax(), until the board is terminal
NextSelfPlay == Play

SelfPlay == Init /\ [][NextSelfPlay]_vars /\ WF_vars(Play)

\* one call of a function on any board over {EMPTY, X, O}, reachable or not,
\* result() with coordinates inside and outside the board
InitAll == board \in AllBoards /\ call = NoCall

Fresh == call = NoCall

NextAll ==
  \/ Fresh /\ Winner
  \/ Fresh /\ Terminal
  \/ Fresh /\ Utility
  \/ Fresh /\ \E m \in MoveInputs : Result(m)

SpecAll == InitAll /\ [][NextAll]_vars

(***************************************************************************)
(* Reference definitions of the properties: the lines of the board, and    *)
(* the game-theoretic value of a board by plain minimax without pruning.   *)
(***************************************************************************)
Lines ==
  {{<<i, j>> : j \in Idx} : i \in Idx} \cup {{<<i, j>> : i \in Idx} : j \in Idx}
    \cup {{<<i, i>> : i \in Idx}} \cup {{<<i, N - 1 - i>> : i \in Idx}}

HasLine(b, mark) == \E line \in Lines : \A c \in line : b[c[1]][c[2]] = mark

Full(b) == \A i \in Idx : \A j \in Idx : b[i][j] # EMPTY

EmptyCells(b) == {c \in Idx \X Idx : b[c[1]][c[2]] = EMPTY}

Largest(vs) == CHOOSE v \in vs : \A u \in vs : u <= v
Smallest(vs) == CHOOSE v \in vs : \A u \in vs : v <= u

\* the board after action on b, for a legal action
After(b, action) == result(b, action).new_board

\* utility at the terminal boards, the largest value over the moves when X moves,
\* the smallest when O moves
PlainMinimax(bs, sub) ==
  [b \in bs |->
     IF terminal(b) THEN utility(b)
     ELSE LET vs == {sub[After(b, a)] : a \in actions(b)}
          IN  IF player(b) = X THEN Largest(vs) ELSE Smallest(vs)]

RECURSIVE PlainFrom(_)
PlainFrom(k) ==
  IF k = N * N THEN <<PlainMinimax(BoardsWith(k), <<>>)>>
  ELSE LET deeper == PlainFrom(k + 1)
       IN  IF Len(deeper) = N * N - k
           THEN <<PlainMinimax(BoardsWith(k), deeper[1])>> \o deeper
           ELSE <<>>

PlainAll == PlainFrom(0)

GameValue(b) == PlainAll[MarkCount(b) + 1][b]

\* the last call was a result() that returned a board
Succeeded == call.op = "result" /\ ~call.ret.raised

\* C1: on every reachable board that is neither terminal nor empty, every move
\* minimax() can return (whatever the iteration orders) is a legal move, the
\* value of the board after it is the game-theoretic value of the board, and
\* no other legal move is strictly better for the player to move.
C1_MinimaxOptimal ==
  (call.op = "minimax" /\ ~terminal(call.board) /\ call.board # initial_state) =>
    /\ call.ret \in actions(call.board)
    /\ GameValue(After(call.board, call.ret)) = GameValue(call.board)
    /\ \A a \in actions(call.board) :
         IF player(call.board) = X
         THEN GameValue(After(call.board, a)) <= GameValue(After(call.board, call.ret))
         ELSE GameValue(After(call.board, a)) >= GameValue(After(call.board, call.ret))

\* minimax() returned a move on a board where another legal move is strictly worse
\* for the player to move
C1_Witness ==
  /\ call.op = "minimax" /\ ~terminal(call.board) /\ call.board # initial_state
  /\ call.ret \in actions(call.board)
  /\ \E a \in actions(call.board) : GameValue(After(call.board, a)) # GameValue(call.board)

\* C2: in self-play with the moves of minimax(), from every opening move, the
\* play reaches a terminal board and stays there, and its utility is 0.
C2_SelfPlayDraws == <>[](terminal(board) /\ utility(board) = 0)

\* self-play applied a move that ended the game in a draw
C2_Witness == Succeeded /\ terminal(board) /\ utility(board) = 0 /\ winner(board) = None

\* a call of result() is illegal: coordinates outside the board, an occupied cell,
\* or a terminal board
Illegal(b, action) ==
  IF action[1] \in Idx /\ action[2] \in Idx
  THEN b[action[1]][action[2]] # EMPTY \/ terminal(b)
  ELSE TRUE

\* C3: result() raises exactly on the illegal calls, and the caller's board is
\* unchanged when it raises.
C3_ResultFailsOnIllegal ==
  call.op = "result" =>
    /\ call.ret.raised <=> Illegal(call.board, call.action)
    /\ call.ret.raised => board = call.board

\* result() raised on a board that is not terminal, for coordinates outside the
\* board, and the caller's board is the one it passed
C3_Witness ==
  /\ call.op = "result" /\ call.ret.raised /\ board = call.board
  /\ call.action[1] \notin Idx
  /\ ~terminal(board)

\* C4 as stated: after every successful result(), actions() has exactly one
\* element fewer than before.
C4_Original ==
  Succeeded => Cardinality(actions(board)) = Cardinality(actions(call.board)) - 1

\* C4 amended: after every successful result(), actions() has exactly one element
\* fewer than before if the new board is not terminal, and is empty if it is.
C4_OneFewerUnlessTerminal ==
  Succeeded =>
    IF terminal(board)
    THEN actions(board) = {}
    ELSE Cardinality(actions(board)) = Cardinality(actions(call.board)) - 1

\* a move completed a line while other cells were still empty
C4_Witness ==
  /\ Succeeded /\ terminal(board) /\ winner(board) # None /\ ~Full(board)
  /\ Cardinality(actions(call.board)) > 1 /\ actions(board) = {}

Other(mark) == IF mark = X THEN O ELSE X

\* C5: turns alternate.  player() is X on the empty board; a successful result()
\* was called on a board where player() is X or O, it placed exactly that mark
\* and left the other cells alone, and on the new board, if it is not terminal,
\* player() is the other mark.  On every reachable board player() is None exactly
\* when the board is terminal, and otherwise X when the counts of X and O are
\* equal and O when X has one more.
C5_TurnsAlternate ==
  /\ player(initial_state) = X
  /\ player(board) = None <=> terminal(board)
  /\ ~terminal(board) =>
       /\ Count(board, X) = Count(board, O) => player(board) = X
       /\ Count(board, X) = Count(board, O) + 1 => player(board) = O
       /\ Count(board, X) \in {Count(board, O), Count(board, O) + 1}
  /\ Succeeded =>
       /\ player(call.board) \in {X, O}
       /\ board = [call.board EXCEPT ![call.action[1]][call.action[2]] = player(call.board)]
       /\ call.board[call.action[1]][call.action[2]] = EMPTY
       /\ ~terminal(board) => player(board) = Other(player(call.board))

\* O moved and it is X's turn again
C5_Witness ==
  Succeeded /\ player(call.board) = O /\ ~terminal(board) /\ player(board) = X

\* C6: on every board, winner() returns a mark only if a line is uniformly that
\* mark, returns a mark if some line is uniformly X or O, and returns None
\* exactly when no line is.
C6_WinnerIffLine ==
  call.op = "winner" =>
    /\ call.ret \in {X, O} => HasLine(call.board, call.ret)
    /\ (HasLine(call.board, X) \/ HasLine(call.board, O)) => call.ret \in {X, O}
    /\ call.ret = None <=> ~(HasLine(call.board, X) \/ HasLine(call.board, O))

\* winner() returned O for a board whose only uniform line is the right diagonal
C6_Witness ==
  /\ call.op = "winner" /\ call.ret = O
  /\ \A i \in Idx : call.board[i][N - 1 - i] = O
  /\ Count(call.board, O) = N

\* C7: on every board, terminal() is true exactly when winner() is not None or
\* every cell is occupied.
C7_TerminalIffWinnerOrFull ==
  call.op = "terminal" =>
    (call.ret <=> (winner(call.board) # None \/ Full(call.board)))

\* terminal() was true for a board with a winner and empty cells
C7_Witness ==
  /\ call.op = "terminal" /\ call.ret
  /\ winner(call.board) = X /\ ~Full(call.board)

\* C8: on every board, utility() is 1 when winner() is X, -1 when it is O and 0
\* when it is None.
C8_UtilityOfWinner ==
  call.op = "utility" =>
    /\ call.ret \in {-1, 0, 1}
    /\ call.ret = (IF winner(call.board) = X THEN 1
                   ELSE IF winner(call.board) = O THEN -1 ELSE 0)

\* utility() was called on a board with a line of X and a line of O
C8_Witness ==
  /\ call.op = "utility" /\ call.ret = -1
  /\ HasLine(call.board, X) /\ HasLine(call.board, O)

\* C9: on every reachable board, every value the search of the player to move can
\* return with alpha = -inf and beta = inf (whatever the iteration orders at
\* every level) is the value of plain minimax without pruning.
C9_PruningKeepsValue == call.op = "search" => call.ret[1] = GameValue(call.board)

\* the search returned the plain value of a board although one of the calls of
\* its loop, with alpha or beta narrowed, can return a value that is not the
\* plain value of its board
C9_Witness ==
  /\ call.op = "search" /\ ~terminal(call.board)
  /\ \E a \in actions(call.board) : \E w \in Windows :
       \E r \in Searched(After(call.board, a), w[1], w[2]) :
         r[1] # GameValue(After(call.board, a))

\* C10: a reachable board never has a line of X and a line of O, and result()
\* never succeeds on a board that has a line of either.
C10_AtMostOneWinner ==
  /\ ~(HasLine(board, X) /\ HasLine(board, O))
  /\ Succeeded => ~(HasLine(call.board, X) \/ HasLine(call.board, O))

\* a move completed a line, after which every result() raises
C10_Witness ==
  /\ call.op = "result" /\ call.ret.raised
  /\ HasLine(board, X) /\ ~Full(board)
  /\ call.action \in EmptyCells(board)

====
